---- MODULE Spec2Model ----
(***************************************************************************)
(* A model of the report generator: the model manager, the web UI's        *)
(* generate_report handler, the database connection manager, the data      *)
(* source manager, the startup of Ollama and the report processor.  Every  *)
(* component is a state machine of its own (SpecModel, SpecUI, SpecConn,   *)
(* SpecData, SpecRun, SpecReports, and SpecConnRace for create_connection  *)
(* calls that overlap) over the variables below; the outcomes of library   *)
(* and operating-system calls are inputs chosen by the environment.        *)
(***************************************************************************)
EXTENDS Integers, Sequences, FiniteSets, TLC

VARIABLES
    OPENAI_API_KEY,   \* config.OPENAI_API_KEY, read from the environment at import
    now,              \* the wall clock, in seconds (datetime.now())
    mm,               \* the last ModelManager call: its arguments, environment, result
    ui,               \* the last call of the UI's generate_report handler
    reports,          \* the files of the reports/ directory
    connections,      \* ConnectionManager.connections
    clients,          \* the database clients and pools that are open
    conn,             \* the last ConnectionManager call
    data_cache,       \* DataSourceManager.data_cache
    ds,               \* the last DataSourceManager call
    run,              \* the call of run.initialize_ollama at startup
    rp,               \* the ReportProcessor.generate_report calls and their directory
    cc                \* the create_connection calls in flight

vars ==
    <<OPENAI_API_KEY, now, mm, ui, reports, connections, clients, conn, data_cache, ds,
      run, rp, cc>>

(***************************************************************************)
(* Bounds of the model.                                                    *)
(***************************************************************************)
MaxClock == 1
MaxRetries == 3
NumCalls == 2
NumTasks == 2

(***************************************************************************)
(* Python values.                                                          *)
(***************************************************************************)
\* None, where a string is expected
None == "<None>"

\* bool(s) of a str or None
Truthy(s) == s /= None /\ s /= ""

\* a or b
PyOr(a, b) == IF Truthy(a) THEN a ELSE b

\* str.lower() on the strings the model uses
Lower(s) ==
    CASE s = "PDF" -> "pdf"
      [] s = "DOCX" -> "docx"
      [] s = "HTML" -> "html"
      [] s = ".CSV" -> ".csv"
      [] s = ".Json" -> ".json"
      [] OTHER -> s

\* the outcome of a call: a returned value or a raised exception with its str()
Ret(v) == [kind |-> "return", value |-> v, exc |-> "", msg |-> <<>>]

Raise(e, m, none) == [kind |-> "raise", value |-> none, exc |-> e, msg |-> m]

(***************************************************************************)
(* core/models: ModelManager, OllamaLLM, OpenAILLM.                        *)
(***************************************************************************)
NoModel == [cls |-> "None", model_name |-> "", api_key |-> ""]

OllamaLLM(model_name) == [cls |-> "OllamaLLM", model_name |-> model_name, api_key |-> ""]

OpenAILLM(model_name, key) == [cls |-> "OpenAILLM", model_name |-> model_name, api_key |-> key]

\* the attributes a ModelManager instance has: its methods and what __init__ sets
ModelManagerAttrs ==
    { "_available_models", "_providers", "logger",
      "_lazy_load_models", "_get_available_local_models", "get_available_providers",
      "get_available_models", "_get_local_models", "get_model",
      "verify_model_availability", "get_default_model", "get_provider_info" }

\* the outcomes of the processes and requests the model manager starts
ShowOutcomes == {"zero", "nonzero", "raise"}
PullOutcomes == {"zero", "nonzero", "raise"}
ApiShowOutcomes == {"200", "404", "raise"}

\* a variant that offers openai whatever the key is
get_available_providers_unconditional(key) ==
    <<"local", "openai">>

get_available_providers(key) ==
    <<"local">> \o (IF Truthy(key) THEN <<"openai">> ELSE <<>>)

verify_model_availability(provider, model_name, key, env) ==
    IF provider = "local"
    THEN IF env.show = "raise" THEN FALSE ELSE env.show = "zero"
    ELSE IF provider = "openai" THEN Truthy(key) ELSE FALSE

\* OllamaHandler.ensure_model_pulled
ensure_model_pulled(model_name, env) ==
    IF env.apiShow = "raise" THEN FALSE
    ELSE IF env.apiShow = "200" THEN TRUE
    ELSE IF env.pull = "raise" THEN FALSE
    ELSE env.pull = "zero"

\* a variant of get_model that prefers the configured key to the one passed in
get_model_config_key_first(provider, model_name, api_key, key, env) ==
    IF provider = "local"
    THEN IF verify_model_availability(provider, model_name, key, env)
         THEN Ret(OllamaLLM(model_name))
         ELSE Raise("AttributeError",
                    <<"'ModelManager' object has no attribute 'ensure_model_pulled'">>,
                    NoModel)
    ELSE IF provider = "openai"
         THEN LET k == PyOr(key, api_key)
              IN  IF ~Truthy(k)
                  THEN Raise("ValueError", <<"OpenAI API key required">>, NoModel)
                  ELSE Ret(OpenAILLM(model_name, k))
         ELSE Raise("ValueError", <<"Unknown provider: ", provider>>, NoModel)

get_model(provider, model_name, api_key, key, env) ==
    IF provider = "local"
    THEN IF verify_model_availability(provider, model_name, key, env)
         THEN Ret(OllamaLLM(model_name))
         ELSE IF "ensure_model_pulled" \notin ModelManagerAttrs
              THEN Raise("AttributeError",
                         <<"'ModelManager' object has no attribute 'ensure_model_pulled'">>,
                         NoModel)
              ELSE IF ensure_model_pulled(model_name, env)
                   THEN Ret(OllamaLLM(model_name))
                   ELSE Raise("ValueError",
                              <<"Model '", model_name, "' is not available">>, NoModel)
    ELSE IF provider = "openai"
         THEN LET k == PyOr(api_key, key)
              IN  IF ~Truthy(k)
                  THEN Raise("ValueError", <<"OpenAI API key required">>, NoModel)
                  ELSE Ret(OpenAILLM(model_name, k))
         ELSE Raise("ValueError", <<"Unknown provider: ", provider>>, NoModel)

Providers == {"local", "openai", "anthropic"}
ModelNames == {"llama2:latest", "gpt-4"}
ApiKeys == {None, "", "sk-user"}
ConfigKeys == {"", "sk-env"}
ModelEnvs == [show : ShowOutcomes, apiShow : ApiShowOutcomes, pull : PullOutcomes]

MMIdle ==
    [op |-> "none", provider |-> "", model_name |-> "", api_key |-> None,
     env |-> [show |-> "zero", apiShow |-> "200", pull |-> "zero"],
     result |-> Ret(NoModel), providers |-> <<>>]

GetModel ==
    /\ \E provider \in Providers, model_name \in ModelNames, api_key \in ApiKeys,
          env \in ModelEnvs :
          mm' = [op |-> "get_model", provider |-> provider, model_name |-> model_name,
                 api_key |-> api_key, env |-> env,
                 result |-> get_model(provider, model_name, api_key, OPENAI_API_KEY, env),
                 providers |-> <<>>]
    /\ UNCHANGED <<run, rp, cc, OPENAI_API_KEY, now, ui, reports, connections, clients, conn, data_cache, ds>>

GetAvailableProviders ==
    /\ mm' = [MMIdle EXCEPT !.op = "get_available_providers",
                            !.providers = get_available_providers(OPENAI_API_KEY)]
    /\ UNCHANGED <<run, rp, cc, OPENAI_API_KEY, now, ui, reports, connections, clients, conn, data_cache, ds>>

(***************************************************************************)
(* core/agent.py: ReportGeneratorAgent.                                    *)
(***************************************************************************)
\* the attributes a ReportGeneratorAgent instance has
AgentAttrs ==
    { "llm", "service_context", "_build_schema_context", "_format_schema",
      "generate_report", "_analyze_data", "_analyze_dataframe", "_analyze_database",
      "_generate_sample_queries", "_find_relationships", "_compare_sources",
      "_get_all_fields", "_generate_insights", "_create_visualizations" }

\* the attributes of the model classes (BaseLLM, OllamaLLM, OpenAILLM)
LLMAttrs ==
    { "model_name", "base_url", "api_key", "metadata", "context_window",
      "generate", "chat", "_format_chat_messages", "_process_stream" }

\* the parameters of ReportGeneratorAgent.generate_report, and those without a default
AgentParams == {"data_sources", "query", "output_format", "include_viz"}
AgentRequired == {"data_sources", "query"}

\* Python's binding of keyword arguments to parameters
BindFails(kwargs, params, required) ==
    ~(kwargs \subseteq params) \/ ~(required \subseteq kwargs)

NoReport == [content |-> "", format |-> ""]

AgentOut(r, called) == [r |-> r, llmCalled |-> called]

\* ReportGeneratorAgent.generate_report, called with the keyword arguments kwargs
agent_generate_report(kwargs, output_format, env) ==
    IF BindFails(kwargs, AgentParams, AgentRequired)
    THEN AgentOut(Raise("TypeError",
                        <<"generate_report() got an unexpected keyword argument">>,
                        NoReport), FALSE)
    ELSE
      \* _analyze_data ends in _generate_insights, which swallows every error of
      \* self.llm.acomplete; _create_visualizations swallows its errors too
      LET called == "acomplete" \in LLMAttrs
      IN  IF "_generate_report_content" \notin AgentAttrs
          THEN AgentOut(Raise("AttributeError",
                   <<"'ReportGeneratorAgent' object has no attribute '_generate_report_content'">>,
                   NoReport), called)
          ELSE IF env.llm = "fail"
          THEN AgentOut(Raise("Exception", <<"Network error while calling Ollama API">>,
                              NoReport), TRUE)
          ELSE IF "_format_report" \notin AgentAttrs
          THEN AgentOut(Raise("AttributeError",
                   <<"'ReportGeneratorAgent' object has no attribute '_format_report'">>,
                   NoReport), TRUE)
          ELSE AgentOut(Ret([content |-> "text", format |-> output_format]), TRUE)

(***************************************************************************)
(* interface/app.py: the generate_report handler of the web UI.            *)
(***************************************************************************)
NoPath == [dir |-> "", ts |-> -1, ext |-> ""]

\* f"reports/report_{timestamp}.<ext>"
ReportPath(t, ext) == [dir |-> "reports", ts |-> t, ext |-> ext]

\* what a call of the handler did
NoEffects == [dirs |-> FALSE, model |-> FALSE, agent |-> FALSE, run |-> FALSE,
              llm |-> FALSE, file |-> NoPath]

UIReturn(path, status, eff) ==
    [kind |-> "return", path |-> path, status |-> status, exc |-> "", eff |-> eff]

UIRaise(exc, msg, eff) ==
    [kind |-> "raise", path |-> NoPath, status |-> msg, exc |-> exc, eff |-> eff]

\* save_pdf_report, save_docx_report, save_html_report: each re-raises what it catches
save_report(ext, t, env, eff) ==
    IF env.save = "fail"
    THEN UIRaise("OSError", <<"cannot write the report">>, eff)
    ELSE UIReturn(ReportPath(t, ext), <<"Report generated successfully!">>,
                  [eff EXCEPT !.file = ReportPath(t, ext)])

\* the keyword arguments the handler passes to agent.generate_report
UIAgentKwargs == {"query", "context", "output_format", "include_viz"}

\* a variant of the try block that looks at the query before the model
generate_report_try_query_first(req, key, env, t) ==
    IF ~Truthy(req.query_text)
    THEN UIReturn(NoPath, <<"Please enter a query">>, NoEffects)
    ELSE IF ~Truthy(req.model_name)
    THEN UIReturn(NoPath, <<"Please select a model first">>, NoEffects)
    ELSE IF req.files = <<>> /\ req.source_type \in {"File Upload", "Both"}
    THEN UIReturn(NoPath, <<"Please upload at least one file">>, NoEffects)
    ELSE UIRaise("TypeError", <<"generate_report() got an unexpected keyword argument">>,
                 [NoEffects EXCEPT !.dirs = TRUE, !.model = TRUE, !.agent = TRUE,
                                   !.run = TRUE])

\* the body of the handler's try block
generate_report_try(req, key, env, t) ==
    IF ~Truthy(req.model_name)
    THEN UIReturn(NoPath, <<"Please select a model first">>, NoEffects)
    ELSE IF ~Truthy(req.query_text)
    THEN UIReturn(NoPath, <<"Please enter a query">>, NoEffects)
    ELSE IF req.files = <<>> /\ req.source_type \in {"File Upload", "Both"}
    THEN UIReturn(NoPath, <<"Please upload at least one file">>, NoEffects)
    ELSE IF env.makedirs = "fail"
    THEN UIRaise("OSError", <<"cannot create reports">>, NoEffects)
    ELSE
      LET e1 == [NoEffects EXCEPT !.dirs = TRUE]
          m  == get_model(req.provider, req.model_name, req.api_key, key, env.model)
      IN  IF m.kind = "raise" THEN UIRaise(m.exc, m.msg, e1)
          ELSE IF env.serviceContext = "fail"
          THEN UIRaise("ValueError", <<"cannot build the service context">>,
                       [e1 EXCEPT !.model = TRUE])
          ELSE
            LET a  == agent_generate_report(UIAgentKwargs, Lower(req.format_type), env)
                e2 == [e1 EXCEPT !.model = TRUE, !.agent = TRUE, !.run = TRUE,
                                 !.llm = a.llmCalled]
            IN  IF a.r.kind = "raise" THEN UIRaise(a.r.exc, a.r.msg, e2)
                ELSE IF Lower(req.format_type) = "pdf" THEN save_report("pdf", t, env, e2)
                ELSE IF Lower(req.format_type) = "docx" THEN save_report("docx", t, env, e2)
                ELSE save_report("html", t, env, e2)

\* a variant of the handler that catches ValueError alone
generate_report_catch_value_error(req, key, env, t) ==
    LET b == generate_report_try(req, key, env, t)
    IN  IF b.kind = "raise" /\ b.exc = "ValueError"
        THEN UIReturn(NoPath, <<"Error generating report: ">> \o b.status, b.eff)
        ELSE b

\* the handler: except Exception as e: return None, f"Error generating report: {e}"
generate_report(req, key, env, t) ==
    LET b == generate_report_try(req, key, env, t)
    IN  IF b.kind = "raise"
        THEN UIReturn(NoPath, <<"Error generating report: ">> \o b.status, b.eff)
        ELSE b

UIProviders == {"local", "openai"}
UIModelNames == {None, "llama2:latest"}
UIApiKeys == {"", "sk-user"}
SourceTypes == {None, "File Upload", "Database", "Both"}
Files == {<<>>, <<"sales.csv">>}
Queries == {"", "summarise the sales"}
Formats == {"PDF", "HTML", "DOCX"}

Requests ==
    [provider : UIProviders, model_name : UIModelNames, api_key : UIApiKeys,
     source_type : SourceTypes, files : Files, query_text : Queries,
     format_type : Formats]

UIEnvs ==
    [makedirs : {"ok", "fail"},
     model : [show : {"zero", "nonzero"}, apiShow : {"404"}, pull : {"zero"}],
     serviceContext : {"ok", "fail"}, llm : {"ok", "fail"}, save : {"ok", "fail"}]

NoRequest ==
    [provider |-> "local", model_name |-> None, api_key |-> "", source_type |-> None,
     files |-> <<>>, query_text |-> "", format_type |-> "PDF"]

NoUIEnv ==
    [makedirs |-> "ok", model |-> [show |-> "zero", apiShow |-> "404", pull |-> "zero"],
     serviceContext |-> "ok", llm |-> "ok", save |-> "ok"]

UIIdle ==
    [pc |-> "idle", req |-> NoRequest, env |-> NoUIEnv,
     out |-> UIReturn(NoPath, <<>>, NoEffects)]

\* generate_btn.click: the handler is called with the values of the form
Click ==
    /\ ui.pc \in {"idle", "done"}
    /\ \E req \in Requests : ui' = [UIIdle EXCEPT !.pc = "running", !.req = req]
    /\ UNCHANGED <<run, rp, cc, OPENAI_API_KEY, now, mm, reports, connections, clients, conn, data_cache, ds>>

\* the handler runs to its return; the environment decides what its calls do
HandleGenerateReport ==
    /\ ui.pc = "running"
    /\ \E env \in UIEnvs :
          LET out == generate_report(ui.req, OPENAI_API_KEY, env, now)
          IN  /\ ui' = [ui EXCEPT !.pc = "done", !.env = env, !.out = out]
              /\ reports' = IF out.eff.file = NoPath THEN reports
                            ELSE reports \cup {out.eff.file}
    /\ UNCHANGED <<run, rp, cc, OPENAI_API_KEY, now, mm, connections, clients, conn, data_cache, ds>>

(***************************************************************************)
(* core/data/connection_manager.py: ConnectionManager.                     *)
(***************************************************************************)
EmptyMap == [k \in {} |-> 0]

\* self.supported_databases
supported_databases == {"mongodb", "mysql", "postgresql"}

\* required_keys of _connect_mongodb, _connect_mysql and _connect_postgresql
required_keys(db_type) ==
    IF db_type = "mongodb" THEN {"uri", "database"}
    ELSE {"host", "user", "password", "database"}

\* the name the messages of a connect function use
DbLabel(db_type) ==
    CASE db_type = "mongodb" -> "MongoDB"
      [] db_type = "mysql" -> "MySQL"
      [] OTHER -> "PostgreSQL"

\* the outcome of a ConnectionManager call: the result, the table after it, the
\* open clients and pools after it, and whether a query reached the database
ConnOut(result, table, open, ran) ==
    [result |-> result, table |-> table, open |-> open, ranQuery |-> ran]

\* a client or pool that is not open yet
NewClient(open) == CHOOSE h \in 1..(Cardinality(open) + 1) : h \notin open

\* _connect_mongodb, _connect_mysql, _connect_postgresql: config is the set of
\* keys of the configuration; a failure leaves the table as it was
connect_func(table, open, db_type, config, env) ==
    IF ~(required_keys(db_type) \subseteq config)
    THEN ConnOut(Raise("DatabaseError",
                       <<DbLabel(db_type), " connection failed: ",
                         "Missing required ", DbLabel(db_type), " configuration">>, "None"),
                 table, open, FALSE)
    ELSE IF env.connect = "fail"
    THEN ConnOut(Raise("DatabaseError",
                       <<DbLabel(db_type), " connection failed: ", "refused">>, "None"),
                 table, open, FALSE)
    ELSE LET h == NewClient(open)
         IN  ConnOut(Ret("True"),
                     [t \in DOMAIN table \cup {db_type} |->
                        IF t = db_type THEN [config |-> config, client |-> h]
                        ELSE table[t]],
                     open \cup {h}, FALSE)

create_connection(table, open, db_type, config, env) ==
    LET r == IF db_type \notin supported_databases
             THEN ConnOut(Raise("DatabaseError",
                                <<"Unsupported database type: ", db_type>>, "None"),
                          table, open, FALSE)
             ELSE IF db_type \in DOMAIN table
             THEN ConnOut(Ret("True"), table, open, FALSE)
             ELSE connect_func(table, open, db_type, config, env)
    IN  IF r.result.kind = "raise"
        THEN [r EXCEPT !.result = Raise("DatabaseError",
                                        <<"Connection failed: ">> \o r.result.msg, "None")]
        ELSE r

\* a variant of execute_query that drops a connection whose query failed
execute_query_dropping(table, open, db_type, env) ==
    IF db_type \notin DOMAIN table
    THEN ConnOut(Raise("DatabaseError", <<"No connection exists for ", db_type>>, "None"),
                 table, open, FALSE)
    ELSE IF env.query = "fail" \/ env.frame = "fail"
    THEN ConnOut(Raise("DatabaseError", <<"Query execution failed: ", "error">>, "None"),
                 [t \in DOMAIN table \ {db_type} |-> table[t]], open, TRUE)
    ELSE ConnOut(Ret("DataFrame"), table, open, TRUE)

execute_query(table, open, db_type, env) ==
    IF db_type \notin DOMAIN table
    THEN ConnOut(Raise("DatabaseError", <<"No connection exists for ", db_type>>, "None"),
                 table, open, FALSE)
    ELSE IF db_type \notin supported_databases
    THEN ConnOut(Raise("DatabaseError",
                       <<"Query execution failed: ", "Unsupported database type: ",
                         db_type>>, "None"),
                 table, open, FALSE)
    ELSE IF env.query = "fail"
    THEN ConnOut(Raise("DatabaseError", <<"Query execution failed: ", "error">>, "None"),
                 table, open, TRUE)
    ELSE IF env.frame = "fail"
    THEN ConnOut(Raise("DatabaseError", <<"Query execution failed: ", "bad rows">>, "None"),
                 table, open, TRUE)
    ELSE ConnOut(Ret("DataFrame"), table, open, TRUE)

\* close_connection: closing may raise, which is logged; the entry is deleted
\* only after a close that did not raise
close_connection(table, open, db_type, closes) ==
    IF db_type \notin DOMAIN table THEN ConnOut(Ret("None"), table, open, FALSE)
    ELSE IF closes = "fail" THEN ConnOut(Ret("None"), table, open, FALSE)
    ELSE ConnOut(Ret("None"), [t \in DOMAIN table \ {db_type} |-> table[t]],
                 open \ {table[db_type].client}, FALSE)

\* for db_type in list(self.connections.keys()): await self.close_connection(db_type);
\* closes[t] is what closing the client or pool of t does
RECURSIVE close_each(_, _, _, _)
close_each(table, open, todo, closes) ==
    IF todo = {} THEN ConnOut(Ret("None"), table, open, FALSE)
    ELSE LET t == CHOOSE x \in todo : TRUE
             c == close_connection(table, open, t, closes[t])
         IN  close_each(c.table, c.open, todo \ {t}, closes)

close_all_connections(table, open, closes) ==
    close_each(table, open, DOMAIN table, closes)

get_connection_status(table) ==
    [t \in DOMAIN table |->
        IF required_keys(t) \subseteq table[t].config
        THEN [connected |-> TRUE] ELSE [connected |-> FALSE]]

DbTypes == supported_databases \cup {"sqlite"}

Configs ==
    { {}, {"uri", "database"}, {"host", "user"},
      {"host", "user", "password", "database"} }

ConnEnvs == [connect : {"ok", "fail"}, query : {"ok", "fail"}, frame : {"ok", "fail"}]

CloseEnvs == [supported_databases -> {"ok", "fail"}]

NoConnEnv == [connect |-> "ok", query |-> "ok", frame |-> "ok"]

NoCloses == [t \in supported_databases |-> "ok"]

ConnIdle ==
    [op |-> "none", db_type |-> "", config |-> {}, env |-> NoConnEnv,
     closes |-> NoCloses, before |-> EmptyMap, result |-> Ret("None"),
     ranQuery |-> FALSE, status |-> EmptyMap]

\* a call of the connection manager, recorded with the table it found
ConnCall(op, db_type, config, env, closes, out) ==
    /\ conn' = [op |-> op, db_type |-> db_type, config |-> config, env |-> env,
                closes |-> closes, before |-> connections, result |-> out.result,
                ranQuery |-> out.ranQuery, status |-> EmptyMap]
    /\ connections' = out.table
    /\ clients' = out.open
    /\ UNCHANGED <<run, rp, cc, OPENAI_API_KEY, now, mm, ui, reports, data_cache, ds>>

CreateConnection ==
    \E db_type \in DbTypes, config \in Configs, c \in {"ok", "fail"} :
        LET env == [NoConnEnv EXCEPT !.connect = c]
        IN  ConnCall("create_connection", db_type, config, env, NoCloses,
                     create_connection(connections, clients, db_type, config, env))

ExecuteQuery ==
    \E db_type \in DbTypes, q \in {"ok", "fail"}, f \in {"ok", "fail"} :
        LET env == [NoConnEnv EXCEPT !.query = q, !.frame = f]
        IN  ConnCall("execute_query", db_type, {}, env, NoCloses,
                     execute_query(connections, clients, db_type, env))

CloseConnection ==
    \E db_type \in DbTypes, c \in {"ok", "fail"} :
        ConnCall("close_connection", db_type, {}, NoConnEnv,
                 [NoCloses EXCEPT ![IF db_type \in supported_databases
                                    THEN db_type ELSE "mysql"] = c],
                 close_connection(connections, clients, db_type, c))

CloseAllConnections ==
    \E closes \in CloseEnvs :
        ConnCall("close_all_connections", "", {}, NoConnEnv, closes,
                 close_all_connections(connections, clients, closes))

GetConnectionStatus ==
    /\ conn' = [ConnIdle EXCEPT !.op = "get_connection_status", !.before = connections,
                                !.status = get_connection_status(connections)]
    /\ UNCHANGED <<run, rp, cc, OPENAI_API_KEY, now, mm, ui, reports, connections, clients,
                   data_cache, ds>>

(***************************************************************************)
(* core/data/source_manager.py: DataSourceManager.                         *)
(***************************************************************************)
\* the keys of self.supported_file_types
supported_file_types == {".csv", ".xlsx", ".xls", ".json", ".txt", ".log"}

\* the outcome of a DataSourceManager call: the result and the cache after it
DataOut(result, cache) == [result |-> result, cache |-> cache]

DataError(msg) == Raise("DataProcessError", msg, "None")

\* f"{file_path.stem}_{datetime.now().strftime('%Y%m%d_%H%M%S')}"
cache_key(path, t) == <<path.stem, t>>

\* the file type process_file works with
effective_type(path, file_type) ==
    IF file_type = None THEN Lower(path.suffix) ELSE file_type

CachePut(cache, key, entry) ==
    [k \in DOMAIN cache \cup {key} |-> IF k = key THEN entry ELSE cache[k]]

\* a variant of process_file that caches the entry before the processor has run
process_file_caching_early(cache, path, file_type, env, t) ==
    IF ~env.exists
    THEN DataOut(DataError(<<"File processing failed: ", "File not found">>), cache)
    ELSE LET ft == effective_type(path, file_type)
             put == CachePut(cache, cache_key(path, t),
                             [filename |-> <<path.stem, path.suffix>>, type |-> ft])
         IN  IF ft \notin supported_file_types
             THEN DataOut(DataError(<<"File processing failed: ",
                                      "Unsupported file type: ", ft>>), cache)
             ELSE IF env.process = "fail"
             THEN DataOut(DataError(<<"File processing failed: ", "processing error">>),
                          put)
             ELSE DataOut(Ret("DataFrame"), put)

\* process_file: env.exists is file_path.exists(), env.process what the processor
\* of the file type does
process_file(cache, path, file_type, env, t) ==
    IF ~env.exists
    THEN DataOut(DataError(<<"File processing failed: ", "File not found">>), cache)
    ELSE LET ft == effective_type(path, file_type)
         IN  IF ft \notin supported_file_types
             THEN DataOut(DataError(<<"File processing failed: ",
                                      "Unsupported file type: ", ft>>), cache)
             ELSE IF env.process = "fail"
             THEN DataOut(DataError(<<"File processing failed: ", "processing error">>),
                          cache)
             ELSE DataOut(Ret("DataFrame"),
                          CachePut(cache, cache_key(path, t),
                                   [filename |-> <<path.stem, path.suffix>>,
                                    type |-> ft]))

\* a DataFrame argument, where a cache key may be given instead
Frame == <<"DataFrame", -1>>

\* analyze_data: env.work is what pandas does with the frame
analyze_data(cache, data, env) ==
    IF data /= Frame /\ data \notin DOMAIN cache
    THEN DataOut(DataError(<<"Data analysis failed: ", "Data not found in cache">>), cache)
    ELSE IF env.work = "fail"
    THEN DataOut(DataError(<<"Data analysis failed: ", "error">>), cache)
    ELSE DataOut(Ret("dict"), cache)

viz_types == {"bar", "line", "scatter", "pie"}

\* create_visualization: env.work is what plotly and write_html do
create_visualization(cache, data, viz_type, env) ==
    IF data /= Frame /\ data \notin DOMAIN cache
    THEN DataOut(DataError(<<"Visualization creation failed: ",
                             "Data not found in cache">>), cache)
    ELSE IF viz_type \notin viz_types
    THEN DataOut(DataError(<<"Visualization creation failed: ",
                             "Unsupported visualization type: ", viz_type>>), cache)
    ELSE IF env.work = "fail"
    THEN DataOut(DataError(<<"Visualization creation failed: ", "error">>), cache)
    ELSE DataOut(Ret("dict"), cache)

\* a variant of combine_data whose cache lookup is outside the try block
combine_data_lookup_outside(cache, data1, data2, method, env) ==
    IF (data1 /= Frame /\ data1 \notin DOMAIN cache)
       \/ (data2 /= Frame /\ data2 \notin DOMAIN cache)
    THEN DataOut(Raise("KeyError", <<"key">>, "None"), cache)
    ELSE IF method \notin {"merge", "concat"}
    THEN DataOut(DataError(<<"Data combination failed: ",
                             "Unsupported combination method: ", method>>), cache)
    ELSE IF env.work = "fail"
    THEN DataOut(DataError(<<"Data combination failed: ", "error">>), cache)
    ELSE DataOut(Ret("DataFrame"), cache)

\* combine_data: self.data_cache[key] raises KeyError inside the try block
combine_data(cache, data1, data2, method, env) ==
    IF (data1 /= Frame /\ data1 \notin DOMAIN cache)
       \/ (data2 /= Frame /\ data2 \notin DOMAIN cache)
    THEN DataOut(DataError(<<"Data combination failed: ", "KeyError">>), cache)
    ELSE IF method \notin {"merge", "concat"}
    THEN DataOut(DataError(<<"Data combination failed: ",
                             "Unsupported combination method: ", method>>), cache)
    ELSE IF env.work = "fail"
    THEN DataOut(DataError(<<"Data combination failed: ", "error">>), cache)
    ELSE DataOut(Ret("DataFrame"), cache)

clear_cache(cache) == DataOut(Ret("None"), EmptyMap)

Paths ==
    { [stem |-> "sales", suffix |-> ".csv"], [stem |-> "sales", suffix |-> ".CSV"],
      [stem |-> "notes", suffix |-> ".pdf"] }

FileTypes == {None, ".csv", "csv"}

DataEnvs == [exists : BOOLEAN, process : {"ok", "fail"}, work : {"ok", "fail"}]

NoDataEnv == [exists |-> TRUE, process |-> "ok", work |-> "ok"]

\* what analyze_data, create_visualization and combine_data are given as data
DataArgs == {Frame} \cup ({"sales"} \X (0..MaxClock))

\* the second argument of combine_data
DataArgs2 == {Frame, <<"sales", 0>>}

VizInputs == {"pie", "histogram"}

Methods == {"merge", "concat", "join"}

NoPathArg == [stem |-> "", suffix |-> ""]

DSIdle ==
    [op |-> "none", path |-> NoPathArg, file_type |-> None, data1 |-> Frame,
     data2 |-> Frame, how |-> "", env |-> NoDataEnv, before |-> EmptyMap,
     result |-> Ret("None")]

\* a call of the data source manager, recorded with the cache it found
DataCall(call, out) ==
    /\ ds' = [call EXCEPT !.before = data_cache, !.result = out.result]
    /\ data_cache' = out.cache
    /\ UNCHANGED <<run, rp, cc, OPENAI_API_KEY, now, mm, ui, reports, connections, clients, conn>>

ProcessFile ==
    \E path \in Paths, file_type \in FileTypes, e \in BOOLEAN, p \in {"ok", "fail"} :
        LET env == [NoDataEnv EXCEPT !.exists = e, !.process = p]
        IN  DataCall([DSIdle EXCEPT !.op = "process_file", !.path = path,
                                    !.file_type = file_type, !.env = env],
                     process_file(data_cache, path, file_type, env, now))

AnalyzeData ==
    \E data \in DataArgs, w \in {"ok", "fail"} :
        LET env == [NoDataEnv EXCEPT !.work = w]
        IN  DataCall([DSIdle EXCEPT !.op = "analyze_data", !.data1 = data, !.env = env],
                     analyze_data(data_cache, data, env))

CreateVisualization ==
    \E data \in DataArgs, viz_type \in VizInputs, w \in {"ok", "fail"} :
        LET env == [NoDataEnv EXCEPT !.work = w]
        IN  DataCall([DSIdle EXCEPT !.op = "create_visualization", !.data1 = data,
                                    !.how = viz_type, !.env = env],
                     create_visualization(data_cache, data, viz_type, env))

CombineData ==
    \E data1 \in DataArgs, data2 \in DataArgs2, method \in Methods, w \in {"ok", "fail"} :
        LET env == [NoDataEnv EXCEPT !.work = w]
        IN  DataCall([DSIdle EXCEPT !.op = "combine_data", !.data1 = data1,
                                    !.data2 = data2, !.how = method, !.env = env],
                     combine_data(data_cache, data1, data2, method, env))

ClearCache ==
    DataCall([DSIdle EXCEPT !.op = "clear_cache"], clear_cache(data_cache))

\* a second passes
Tick ==
    /\ now < MaxClock
    /\ now' = now + 1
    /\ UNCHANGED <<run, rp, cc, OPENAI_API_KEY, mm, ui, reports, connections, clients, conn,
                   data_cache, ds>>

(***************************************************************************)
(* run.py: initialize_ollama, with OllamaManager of core/ollama_handler.py. *)
(***************************************************************************)
\* what the calls of OllamaManager.initialize find: check_ollama_running(),
\* start_ollama(), and whether a call raises what the handler does not catch
InitEnvs == [running : BOOLEAN, started : BOOLEAN, crash : BOOLEAN]

\* OllamaManager.initialize: "True", "False" or "raise"; a model that cannot be
\* pulled is logged and does not change the result
initialize(is_windows, env) ==
    IF env.crash THEN "raise"
    ELSE IF ~env.running
    THEN IF is_windows THEN "False"
         ELSE IF ~env.started THEN "False" ELSE "True"
    ELSE "True"

RunIdle ==
    [pc |-> "idle", max_retries |-> 0, is_windows |-> FALSE, attempt |-> 0,
     instance |-> FALSE, inits |-> 0, log |-> <<>>, result |-> "pending"]

\* a variant of the loop body that returns the manager whatever initialize() said
initialize_ollama_attempt_unchecked(r, ctor, init) ==
    IF ~r.instance /\ ctor = "raise"
    THEN [r EXCEPT !.instance = TRUE, !.inits = @ + 1, !.attempt = @ + 1,
                   !.log = Append(@, "raise")]
    ELSE [r EXCEPT !.instance = TRUE, !.inits = @ + (IF r.instance THEN 1 ELSE 2),
                   !.attempt = @ + 1, !.log = Append(@, init),
                   !.pc = "done", !.result = "OllamaManager"]

\* one pass of the loop body: OllamaManager() calls initialize() when it builds
\* the singleton (ctor is what that call does), then initialize() is called
\* again (init is what it does) and the manager is returned when it is True
initialize_ollama_attempt(r, ctor, init) ==
    IF ~r.instance /\ ctor = "raise"
    THEN [r EXCEPT !.instance = TRUE, !.inits = @ + 1, !.attempt = @ + 1,
                   !.log = Append(@, "raise")]
    ELSE LET r1 == [r EXCEPT !.instance = TRUE,
                             !.inits = @ + (IF r.instance THEN 1 ELSE 2),
                             !.attempt = @ + 1, !.log = Append(@, init)]
         IN  IF init = "True"
             THEN [r1 EXCEPT !.pc = "done", !.result = "OllamaManager"]
             ELSE r1

\* main() calls initialize_ollama(max_retries)
InitializeOllama ==
    /\ run.pc = "idle"
    /\ \E n \in 0..MaxRetries, w \in BOOLEAN :
          run' = [RunIdle EXCEPT !.pc = "loop", !.max_retries = n, !.is_windows = w]
    /\ UNCHANGED <<rp, cc, OPENAI_API_KEY, now, mm, ui, reports, connections, clients,
                   conn, data_cache, ds>>

\* for attempt in range(max_retries): one pass
Attempt ==
    /\ run.pc = "loop"
    /\ run.attempt < run.max_retries
    /\ \E c \in InitEnvs, e \in InitEnvs :
          run' = initialize_ollama_attempt(run, initialize(run.is_windows, c),
                                           initialize(run.is_windows, e))
    /\ UNCHANGED <<rp, cc, OPENAI_API_KEY, now, mm, ui, reports, connections, clients,
                   conn, data_cache, ds>>

\* the loop is exhausted: return None
GiveUp ==
    /\ run.pc = "loop"
    /\ run.attempt >= run.max_retries
    /\ run' = [run EXCEPT !.pc = "done", !.result = "None"]
    /\ UNCHANGED <<rp, cc, OPENAI_API_KEY, now, mm, ui, reports, connections, clients,
                   conn, data_cache, ds>>

(***************************************************************************)
(* ConnectionManager.create_connection as coroutines on one event loop: a  *)
(* call runs until it awaits the database library, and other calls run     *)
(* while it waits.                                                         *)
(***************************************************************************)
NoTask == [pc |-> "idle", db_type |-> "", config |-> {}, result |-> Ret("None")]

CCIdle == [t \in 1..NumTasks |-> NoTask]

\* create_connection up to the await of the connect function: the checks of
\* the database type, of the table and of the configuration keys
CCBegin(t) ==
    /\ cc[t].pc = "idle"
    /\ \E db_type \in DbTypes, config \in Configs :
          cc' = [cc EXCEPT ![t] =
                    IF \/ db_type \notin supported_databases
                       \/ db_type \in DOMAIN connections
                       \/ ~(required_keys(db_type) \subseteq config)
                    THEN [pc |-> "done", db_type |-> db_type, config |-> config,
                          result |-> create_connection(connections, clients, db_type,
                                                       config, NoConnEnv).result]
                    ELSE [pc |-> "connecting", db_type |-> db_type, config |-> config,
                          result |-> Ret("None")]]
    /\ UNCHANGED <<run, rp, OPENAI_API_KEY, now, mm, ui, reports, connections, clients,
                   conn, data_cache, ds>>

\* the awaited ping or create_pool returns or raises, and the connect function
\* runs to its end: on success it stores the new client or pool in the table
CCFinish(t) ==
    /\ cc[t].pc = "connecting"
    /\ \E env \in ConnEnvs :
          LET c == connect_func(connections, clients, cc[t].db_type, cc[t].config, env)
          IN  /\ connections' = c.table
              /\ clients' = c.open
              /\ cc' = [cc EXCEPT ![t] =
                           [@ EXCEPT !.pc = "done",
                                     !.result =
                                        IF c.result.kind = "raise"
                                        THEN Raise("DatabaseError",
                                                   <<"Connection failed: ">> \o c.result.msg,
                                                   "None")
                                        ELSE c.result]]
    /\ UNCHANGED <<run, rp, OPENAI_API_KEY, now, mm, ui, reports, conn, data_cache, ds>>

(***************************************************************************)
(* core/processors/report_preprocessor.py: ReportProcessor.                *)
(***************************************************************************)
\* config.SUPPORTED_FORMATS
SUPPORTED_FORMATS == {"pdf", "docx", "html"}

\* config.REPORTS_DIR, the package's reports directory
REPORTS_DIR == "BASE_DIR/reports"

\* self.output_dir / f"report_{timestamp}.{output_format}", the timestamp being
\* the clock read to the second
output_path(t, output_format) == [dir |-> REPORTS_DIR, ts |-> t, ext |-> output_format]

\* the image files that exist when a report is written
ExistingFiles == {"chart.png"}

\* _generate_pdf: a visualization that cannot be added is logged and skipped
generate_pdf(visualizations, io) ==
    IF io = "ok" THEN "written" ELSE "OSError"

\* _generate_docx: doc.add_picture opens every visualization, unguarded
generate_docx(visualizations, io) ==
    IF \E k \in 1..Len(visualizations) : visualizations[k] \notin ExistingFiles
    THEN "FileNotFoundError"
    ELSE IF io = "ok" THEN "written" ELSE "OSError"

\* _generate_html: the visualizations are only named in <img> tags
generate_html(visualizations, io) ==
    IF io = "ok" THEN "written" ELSE "OSError"

\* the dispatch on output_format
generate_writer(output_format, visualizations, io) ==
    IF output_format = "pdf" THEN generate_pdf(visualizations, io)
    ELSE IF output_format = "docx" THEN generate_docx(visualizations, io)
    ELSE IF output_format = "html" THEN generate_html(visualizations, io)
    ELSE "written"

NoCall ==
    [pc |-> "idle", output_format |-> "", visualizations |-> <<>>, io |-> "",
     output_path |-> NoPath, wrote |-> {}, result |-> Ret(None)]

\* no call made, an empty directory
RPIdle == [calls |-> [t \in 1..NumCalls |-> NoCall], dir |-> [p \in {} |-> 0]]

\* the formats asked for, and the visualizations (None, the default, acts as the
\* empty list)
RPFormats == SUPPORTED_FORMATS \cup {"PDF", "txt"}
Visualizations == {<<>>, <<"chart.png">>, <<"missing.png">>}

\* generate_report up to the choice of the output path: the format check, the
\* timestamp
RPGenerateReport(t) ==
    /\ rp.calls[t].pc = "idle"
    /\ \E f \in RPFormats, v \in Visualizations :
          rp' = [rp EXCEPT !.calls[t] =
                    IF f \notin SUPPORTED_FORMATS
                    THEN [@ EXCEPT !.pc = "done", !.output_format = f,
                                   !.visualizations = v,
                                   !.result = Raise("ValueError",
                                                    <<"Unsupported format: ", f>>, None)]
                    ELSE [@ EXCEPT !.pc = "writing", !.output_format = f,
                                   !.visualizations = v,
                                   !.output_path = output_path(now, f)]]
    /\ UNCHANGED <<run, cc, OPENAI_API_KEY, now, mm, ui, reports, connections, clients,
                   conn, data_cache, ds>>

\* the rest of generate_report: the writer of the format creates or replaces the
\* file at output_path, and the path is returned; what the writer raises
\* propagates
RPWrite(t) ==
    /\ rp.calls[t].pc = "writing"
    /\ \E io \in {"ok", "fail"} :
          LET c == rp.calls[t]
              w == generate_writer(c.output_format, c.visualizations, io)
          IN  rp' = IF w = "written"
                    THEN [calls |-> [rp.calls EXCEPT ![t] =
                                        [c EXCEPT !.pc = "done", !.io = io,
                                                  !.wrote = {c.output_path},
                                                  !.result = Ret(c.output_path)]],
                          dir |-> [p \in DOMAIN rp.dir \cup {c.output_path} |->
                                     IF p = c.output_path THEN t ELSE rp.dir[p]]]
                    ELSE [rp EXCEPT !.calls[t] =
                             [c EXCEPT !.pc = "done", !.io = io,
                                       !.result = Raise(w, <<>>, None)]]
    /\ UNCHANGED <<run, cc, OPENAI_API_KEY, now, mm, ui, reports, connections, clients,
                   conn, data_cache, ds>>

(***************************************************************************)
(* The initial state and the specifications of the components.             *)
(***************************************************************************)
Init ==
    /\ OPENAI_API_KEY \in ConfigKeys
    /\ now = 0
    /\ mm = MMIdle
    /\ ui = UIIdle
    /\ reports = {}
    /\ connections = EmptyMap
    /\ clients = {}
    /\ conn = ConnIdle
    /\ data_cache = EmptyMap
    /\ ds = DSIdle
    /\ run = RunIdle
    /\ rp = RPIdle
    /\ cc = CCIdle

NextModel == GetModel \/ GetAvailableProviders

SpecModel == Init /\ [][NextModel]_vars

NextUI == Click \/ HandleGenerateReport

SpecUI == Init /\ [][NextUI]_vars

NextConn ==
    \/ CreateConnection
    \/ ExecuteQuery
    \/ CloseConnection
    \/ CloseAllConnections
    \/ GetConnectionStatus

SpecConn == Init /\ [][NextConn]_vars

NextData ==
    \/ ProcessFile
    \/ AnalyzeData
    \/ CreateVisualization
    \/ CombineData
    \/ ClearCache
    \/ Tick

SpecData == Init /\ [][NextData]_vars

NextRun == InitializeOllama \/ Attempt \/ GiveUp

\* initialize_ollama is sequential code: a step that can be taken is taken
SpecRun == Init /\ [][NextRun]_vars /\ WF_vars(NextRun)

NextConnRace ==
    \/ \E t \in 1..NumTasks : CCBegin(t)
    \/ \E t \in 1..NumTasks : CCFinish(t)

SpecConnRace == Init /\ [][NextConnRace]_vars

NextReports ==
    \/ \E t \in 1..NumCalls : RPGenerateReport(t)
    \/ \E t \in 1..NumCalls : RPWrite(t)
    \/ Tick

SpecReports == Init /\ [][NextReports]_vars

(***************************************************************************)
(* Properties of the UI handler.                                           *)
(***************************************************************************)
UIValid(req) ==
    Truthy(req.model_name) /\ Truthy(req.query_text) /\ req.files /= <<>>

\* C1: the handler never propagates an exception: whatever is raised while
\* the model is built, the agent runs or the report is saved comes back as
\* (None, "Error generating report: <message>").
C1_ErrorsCaught ==
    ui.pc = "done" =>
        /\ ui.out.kind = "return"
        /\ LET b == generate_report_try(ui.req, OPENAI_API_KEY, ui.env, now)
           IN  b.kind = "raise" =>
                  /\ ui.out.path = NoPath
                  /\ ui.out.status = <<"Error generating report: ">> \o b.status

\* C1's case: the agent was run, it raised something that is no ValueError,
\* and the handler returned the error status
C1_Witness ==
    /\ ui.pc = "done"
    /\ ui.out.eff.run
    /\ ui.out.kind = "return"
    /\ ui.out.path = NoPath
    /\ Head(ui.out.status) = "Error generating report: "
    /\ generate_report_try(ui.req, OPENAI_API_KEY, ui.env, now).exc = "TypeError"

\* C2: for a selected model, a query and an uploaded file, when the model is
\* built and the language model answers (and the file system cooperates), the
\* handler returns reports/report_<timestamp>.<format> and the success status.
C2_ReportReturned ==
    ( /\ ui.pc = "done"
      /\ UIValid(ui.req)
      /\ get_model(ui.req.provider, ui.req.model_name, ui.req.api_key,
                   OPENAI_API_KEY, ui.env.model).kind = "return"
      /\ ui.env.makedirs = "ok" /\ ui.env.serviceContext = "ok"
      /\ ui.env.llm = "ok" /\ ui.env.save = "ok" )
    => /\ ui.out.path = ReportPath(now, Lower(ui.req.format_type))
       /\ ui.out.status = <<"Report generated successfully!">>

\* C3: the inputs are validated in a fixed order (model, query, files) and a
\* rejected request builds no model, runs no agent and writes no file.
C3_ValidationOrder ==
    ui.pc = "done" =>
        LET r == ui.req
            rejected(text) == ui.out = UIReturn(NoPath, <<text>>, NoEffects)
        IN  /\ ~Truthy(r.model_name) => rejected("Please select a model first")
            /\ (Truthy(r.model_name) /\ ~Truthy(r.query_text))
                  => rejected("Please enter a query")
            /\ ( /\ Truthy(r.model_name) /\ Truthy(r.query_text)
                 /\ r.files = <<>> /\ r.source_type \in {"File Upload", "Both"} )
                  => rejected("Please upload at least one file")

\* C3's case: a request with no model and no query is rejected for its model
C3_Witness ==
    /\ ui.pc = "done"
    /\ ~Truthy(ui.req.model_name) /\ ~Truthy(ui.req.query_text) /\ ui.req.files = <<>>
    /\ ui.out.status = <<"Please select a model first">>
    /\ ui.out.eff = NoEffects

(***************************************************************************)
(* Properties of the model manager.                                        *)
(***************************************************************************)
InSeq(x, s) == \E i \in 1..Len(s) : s[i] = x

\* C9: get_available_providers always holds "local", holds "openai" exactly
\* when config.OPENAI_API_KEY is not empty, and holds nothing else.
C9_Providers ==
    mm.op = "get_available_providers" =>
        /\ InSeq("local", mm.providers)
        /\ InSeq("openai", mm.providers) <=> OPENAI_API_KEY /= ""
        /\ \A i \in 1..Len(mm.providers) : mm.providers[i] \in {"local", "openai"}

\* C9's case: the providers were asked for with no key configured
C9_Witness ==
    /\ mm.op = "get_available_providers"
    /\ OPENAI_API_KEY = ""
    /\ mm.providers = <<"local">>

\* C10: get_model('local', name) returns an OllamaLLM for name when the model
\* is there; when it is not, the model is pulled, and the result is an
\* OllamaLLM when the pull succeeds and ValueError "Model '<name>' is not
\* available" when it fails.
C10_LocalModel ==
    (mm.op = "get_model" /\ mm.provider = "local") =>
        LET there == mm.env.show = "zero"
            pulled == ensure_model_pulled(mm.model_name, mm.env)
        IN  /\ there => mm.result = Ret(OllamaLLM(mm.model_name))
            /\ (~there /\ pulled) => mm.result = Ret(OllamaLLM(mm.model_name))
            /\ (~there /\ ~pulled) =>
                  mm.result = Raise("ValueError",
                                    <<"Model '", mm.model_name, "' is not available">>,
                                    NoModel)

(***************************************************************************)
(* Properties of the connection manager.                                   *)
(***************************************************************************)
\* C4: create_connection returns True when the connection is there after the
\* call and False when the attempt failed.
C4_FalseOnFailure ==
    conn.op = "create_connection" =>
        /\ conn.result.kind = "return"
        /\ conn.result.value = "True" <=> conn.db_type \in DOMAIN connections
        /\ conn.result.value = "False" <=> conn.db_type \notin DOMAIN connections

\* C5: after close_all_connections the table is empty and
\* get_connection_status() is {}.
C5_AllClosed ==
    conn.op = "close_all_connections" =>
        /\ DOMAIN connections = {}
        /\ DOMAIN get_connection_status(connections) = {}

\* C6: execute_query without a stored connection raises DatabaseError "No
\* connection exists for <db_type>" and runs no query; a failure on a stored
\* connection is raised as DatabaseError; the table is left as it was.
C6_ExecuteQuery ==
    conn.op = "execute_query" =>
        /\ conn.db_type \notin DOMAIN conn.before =>
              /\ conn.result = Raise("DatabaseError",
                                     <<"No connection exists for ", conn.db_type>>, "None")
              /\ ~conn.ranQuery
        /\ ( /\ conn.db_type \in DOMAIN conn.before
             /\ (conn.env.query = "fail" \/ conn.env.frame = "fail") )
              => (conn.result.kind = "raise" /\ conn.result.exc = "DatabaseError")
        /\ conn.result.kind = "raise" => conn.result.exc = "DatabaseError"
        /\ connections = conn.before

\* C6's case: a query on a stored connection failed
C6_Witness ==
    /\ conn.op = "execute_query"
    /\ conn.db_type \in DOMAIN conn.before
    /\ conn.env.query = "fail"
    /\ conn.ranQuery
    /\ conn.result.exc = "DatabaseError"
    /\ Cardinality(DOMAIN connections) = 2

(***************************************************************************)
(* Properties of the data source manager.                                  *)
(***************************************************************************)
\* C7: process_file raises DataProcessError when the file does not exist or
\* its type (the override, or else the lower-cased suffix) is not supported;
\* whenever it raises, the cache is as it was before the call.
C7_ProcessFile ==
    ds.op = "process_file" =>
        LET ft == IF ds.file_type = None THEN Lower(ds.path.suffix) ELSE ds.file_type
        IN  /\ (~ds.env.exists \/ ft \notin {".csv", ".xlsx", ".xls", ".json", ".txt", ".log"})
                  => (ds.result.kind = "raise" /\ ds.result.exc = "DataProcessError")
            /\ ds.result.kind = "raise" => data_cache = ds.before

\* C7's case: the processor of a supported file failed with entries in the cache
C7_Witness ==
    /\ ds.op = "process_file"
    /\ ds.env.exists /\ ds.path.suffix = ".CSV" /\ ds.file_type = None
    /\ ds.env.process = "fail"
    /\ ds.result.exc = "DataProcessError"
    /\ DOMAIN data_cache /= {}

\* C8: analyze_data, create_visualization and combine_data take a cache key
\* for a DataFrame; a key that is not cached, a visualization type or a
\* method that is not supported raises DataProcessError, nothing else
\* escapes, and the cache is left as it was.
C8_CacheReaders ==
    ds.op \in {"analyze_data", "create_visualization", "combine_data"} =>
        LET missing(d) == d /= Frame /\ d \notin DOMAIN ds.before
            raised == ds.result.kind = "raise"
        IN  /\ data_cache = ds.before
            /\ raised => ds.result.exc = "DataProcessError"
            /\ missing(ds.data1) => raised
            /\ (ds.op = "combine_data" /\ missing(ds.data2)) => raised
            /\ (ds.op = "create_visualization"
                  /\ ds.how \notin {"bar", "line", "scatter", "pie"}) => raised
            /\ (ds.op = "combine_data" /\ ds.how \notin {"merge", "concat"}) => raised

\* C8's case: combine_data was given a key that is not in a cache with entries
C8_Witness ==
    /\ ds.op = "combine_data"
    /\ ds.data1 /= Frame /\ ds.data1 \notin DOMAIN ds.before
    /\ DOMAIN ds.before /= {}
    /\ ds.result.exc = "DataProcessError"

\* C11: get_model('openai', name, api_key) builds the model with api_key when
\* it is given and with config.OPENAI_API_KEY otherwise, and raises ValueError
\* "OpenAI API key required" when both are empty; a provider that is neither
\* 'local' nor 'openai' raises ValueError "Unknown provider: <provider>"; no
\* model is built in either error case.
C11_OpenAIAndUnknown ==
    mm.op = "get_model" =>
        /\ mm.provider = "openai" =>
              /\ Truthy(mm.api_key)
                    => mm.result = Ret(OpenAILLM(mm.model_name, mm.api_key))
              /\ (~Truthy(mm.api_key) /\ OPENAI_API_KEY /= "")
                    => mm.result = Ret(OpenAILLM(mm.model_name, OPENAI_API_KEY))
              /\ (~Truthy(mm.api_key) /\ OPENAI_API_KEY = "")
                    => mm.result = Raise("ValueError", <<"OpenAI API key required">>,
                                         NoModel)
        /\ mm.provider \notin {"local", "openai"} =>
              mm.result = Raise("ValueError", <<"Unknown provider: ", mm.provider>>,
                                NoModel)

\* C11's case: a key was passed in while another one is configured
C11_Witness ==
    /\ mm.op = "get_model"
    /\ mm.provider = "openai"
    /\ mm.api_key = "sk-user" /\ OPENAI_API_KEY = "sk-env"
    /\ mm.result.value.api_key = "sk-user"

(***************************************************************************)
(* Properties of the startup.                                              *)
(***************************************************************************)
NoneTrue(log) == \A i \in 1..Len(log) : log[i] \in {"False", "raise"}

\* C12: initialize_ollama(max_retries) makes at most max_retries attempts,
\* returns the OllamaManager at the first attempt whose initialize() returns
\* True, returns None when every attempt failed (by returning False or by
\* raising), and always terminates.
C12_Safety ==
    /\ run.attempt <= run.max_retries
    /\ Len(run.log) = run.attempt
    /\ run.pc = "loop" => (NoneTrue(run.log) /\ run.result = "pending")
    /\ run.pc = "done" => run.result \in {"OllamaManager", "None"}
    /\ (run.pc = "done" /\ run.result = "OllamaManager") =>
          /\ run.log /= <<>>
          /\ run.log[Len(run.log)] = "True"
          /\ NoneTrue(SubSeq(run.log, 1, Len(run.log) - 1))
    /\ (run.pc = "done" /\ run.result = "None") =>
          /\ NoneTrue(run.log)
          /\ Len(run.log) = run.max_retries

C12_InitializeOllama ==
    /\ []C12_Safety
    /\ (run.pc = "loop") ~> (run.pc = "done")

\* C12's case: the third attempt succeeded after one that raised and one that
\* returned False
C12_Witness ==
    /\ run.pc = "done"
    /\ run.result = "OllamaManager"
    /\ run.log = <<"raise", "False", "True">>

(***************************************************************************)
(* Properties of ReportProcessor.                                          *)
(***************************************************************************)
\* C13: generate_report with output_format in {pdf, docx, html} writes exactly
\* one file and returns its path, which lies in the reports directory and ends
\* with the format; with any other output_format it raises ValueError
\* 'Unsupported format' before any file is written.  Stated for the calls whose
\* final write to disk did not fail.
C13_GenerateReport ==
    \A t \in 1..NumCalls :
        LET c == rp.calls[t]
        IN  (c.pc = "done" /\ c.io /= "fail") =>
                IF c.output_format \in SUPPORTED_FORMATS
                THEN /\ c.result.kind = "return"
                     /\ c.wrote = {c.result.value}
                     /\ c.result.value \in DOMAIN rp.dir
                     /\ c.result.value.dir = REPORTS_DIR
                     /\ c.result.value.ext = c.output_format
                ELSE /\ c.result = Raise("ValueError",
                                         <<"Unsupported format: ", c.output_format>>, None)
                     /\ c.wrote = {}

\* C15: two report generations of the same format are written to distinct
\* files, so that a completed report is never overwritten by a later or
\* concurrent one.
C15_DistinctFiles ==
    \A t \in 1..NumCalls, u \in 1..NumCalls :
        (/\ t /= u
         /\ rp.calls[t].result.kind = "return" /\ rp.calls[t].pc = "done"
         /\ rp.calls[u].result.kind = "return" /\ rp.calls[u].pc = "done"
         /\ rp.calls[t].wrote /= {} /\ rp.calls[u].wrote /= {}) =>
            rp.calls[t].result.value /= rp.calls[u].result.value

(***************************************************************************)
(* Properties of concurrent create_connection calls.                       *)
(***************************************************************************)
\* C14: under any interleaving of concurrent create_connection calls, at most
\* one client or pool is established for a database type: no established client
\* or pool is overwritten in the table, and so made unreachable, without having
\* been closed.
C14_NoOrphanClient ==
    \A h \in clients : \E d \in DOMAIN connections : connections[d].client = h

====
